---- MODULE Spec2Model ----
(***************************************************************************)
(* Model of src/microscope.py: the aberration predictor abberior_predict,  *)
(* the stage-offset operations of the two acquisition backends (class      *)
(* Microscope, the simulation, and class Abberior, the Imspector driver),   *)
(* and the plane-by-plane acquisition of Abberior.acquire_image.            *)
(*                                                                         *)
(* Real numbers (correlation scores, offsets, network outputs) are          *)
(* modelled as integers: the code only compares, subtracts, multiplies and  *)
(* copies them.  A Python local that has not been assigned is modelled by   *)
(* its name being absent from the set `bound`; reading it raises            *)
(* UnboundLocalError, as in Python.                                          *)
(***************************************************************************)
EXTENDS Integers, Sequences, FiniteSets, TLC

\* ---------------------------------------------------------------- bounds
\* largest number of samples (argument ii) a call is made with
MaxSamples == 2
\* number of distinct output vectors the (possibly stochastic) network can give
NumSeeds == 2
\* correlation scores range over MinCorr..MaxCorr
MaxCorr == 2

\* stage offsets range over 0..MaxOff on every axis
MaxOff == 1
\* centre-of-mass displacements range over -MaxShift..MaxShift pixels per axis
MaxShift == 1

\* lowest correlation score (a correlation coefficient is never below -1)
MinCorr == 0 - 1

VARIABLES
    \* ---- abberior_predict
    pc,            \* position inside abberior_predict
    model_def,     \* argument model_def: the flags read by the function
    ii,            \* argument ii: number of samples
    it,            \* number of loop iterations started (for _ in range(ii))
    outputs,       \* outputs.numpy()[0] of the current forward pass
    zern_label,    \* local zern_label
    offset_label,  \* local offset_label
    best_corr,     \* local best_corr
    best_coeffs,   \* local best_coeffs
    best_offsets,  \* local best_offsets
    bound,         \* names of the locals that have been assigned
    result,        \* outcome of the call: returned pair or raised exception
    hist,          \* candidates of this call that reached lines 349-350
    \* ---- the backend object held by the caller and its stage offsets
    scope,         \* class of the backend object: "Microscope" or "Abberior"
    config,        \* Microscope: self.config
    gui_params,    \* Abberior: parameters of each Imspector configuration
    active_cfg,    \* Abberior: name of the active configuration
    last,          \* the last stage call: method, mode argument, exception
    ret,           \* value returned by the last get_stage_offsets call
    \* ---- Imspector and Abberior.acquire_image / grab_image
    configs,       \* names of the configurations the measurement has
    windows,       \* names of the capture channels (stacks) the measurement has
    running,       \* the live acquisition is running (started, not paused)
    acq_pc,        \* position inside acquire_image / grab_image
    multi,         \* argument multi of the current acquire_image call
    plane,         \* which of the three try blocks is being executed (1..3)
    grab_bound,    \* locals of grab_image that have been assigned
    img_p,         \* grab_image: local img_p
    images,        \* acquire_image: image_xy, image_xz, image_yz assigned so far
    acq_result,    \* outcome of the acquire_image call
    events,        \* what the call has done to Imspector so far, in order
    \* ---- Microscope.calc_data / acquire_image / save_img, Abberior.save_img
    data,          \* Microscope: self.data, the three simulated planes
    phasemask,     \* Microscope: self.phasemask
    zerns,         \* Microscope: self.zerns
    acq_log,       \* the last two Microscope.acquire_image calls with what they returned
    saved          \* what the last save_img call wrote

predVars == <<pc, model_def, ii, it, outputs, zern_label, offset_label,
              best_corr, best_coeffs, best_offsets, bound, result, hist>>

stageVars == <<scope, config, gui_params, active_cfg, last, ret>>

acqVars == <<configs, windows, running, acq_pc, multi, plane, grab_bound,
             img_p, images, acq_result, events>>

simVars == <<data, phasemask, zerns, acq_log, saved>>

vars == <<predVars, stageVars, acqVars, simVars>>

\* ------------------------------------------------------- abberior_predict

Corrs == MinCorr..MaxCorr

ModelDefs == [multi_flag : BOOLEAN, zern_flag : BOOLEAN, offset_flag : BOOLEAN]

\* lines 295-297: out_dim = 0; += 11 if zern_flag; += 2 if offset_flag
out_dim(d) == (IF d.zern_flag THEN 11 ELSE 0) + (IF d.offset_flag THEN 2 ELSE 0)

\* lines 290-293
in_dim(d) == IF d.multi_flag THEN 3 ELSE 1

\* line 324: the output row of a network built with output_dim = w (line 304);
\* seed s selects which of the possible output vectors this pass gives.
\* Entries differ by position so that slices can be told apart.
Forward(s, w) == [j \in 1..w |-> 100 * s + j]

Pending == [exc |-> "pending", coeffs |-> <<>>, offsets |-> <<>>]
Raised(e) == [exc |-> e, coeffs |-> <<>>, offsets |-> <<>>]
Returned(c, o) == [exc |-> "none", coeffs |-> c, offsets |-> o]

\* lines 327-337: the three decoding branches; any other width assigns nothing
DecodesZern(out) ==
    IF Len(out) = 13 THEN SubSeq(out, 1, Len(out) - 2)
    ELSE IF Len(out) = 11 THEN out
    ELSE <<0 * 11>>

DecodesOffset(out) ==
    IF Len(out) = 13 THEN SubSeq(out, Len(out) - 1, Len(out))
    ELSE IF Len(out) = 11 THEN <<0, 0>>
    ELSE out

DecodedWidth(w) == w = 13 \/ w = 11 \/ w = 2

\* lines 351-354: the candidate replaces the retained one
Better(corr, best) == corr > best

PredInit ==
    /\ pc = "idle"
    /\ model_def = [multi_flag |-> FALSE, zern_flag |-> FALSE, offset_flag |-> FALSE]
    /\ ii = 1
    /\ it = 0
    /\ outputs = <<>>
    /\ zern_label = <<>>
    /\ offset_label = <<>>
    /\ best_corr = 0
    /\ best_coeffs = <<>>
    /\ best_offsets = <<>>
    /\ bound = {}
    /\ result = Pending
    /\ hist = <<>>

\* line 284-287: a call; fresh locals, best_corr = 0
abberior_predict(d, k) ==
    /\ pc \in {"idle", "done"}
    /\ pc' = "loop"
    /\ model_def' = d
    /\ ii' = k
    /\ it' = 0
    /\ outputs' = <<>>
    /\ zern_label' = <<>>
    /\ offset_label' = <<>>
    /\ best_corr' = 0
    /\ best_coeffs' = <<>>
    /\ best_offsets' = <<>>
    /\ bound' = {}
    /\ result' = Pending
    /\ hist' = <<>>
    /\ UNCHANGED <<stageVars, acqVars, simVars>>

\* line 288: for _ in range(ii)
LoopHead ==
    /\ pc = "loop"
    /\ IF it < ii
          THEN /\ it' = it + 1
               /\ pc' = "forward"
          ELSE /\ it' = it
               /\ pc' = "return"
    /\ UNCHANGED <<model_def, ii, outputs, zern_label, offset_label, best_corr,
                   best_coeffs, best_offsets, bound, result, hist>>
    /\ UNCHANGED <<stageVars, acqVars, simVars>>

\* lines 290-324: build the network, load the checkpoint, run the forward pass
ForwardPass ==
    /\ pc = "forward"
    /\ \/ \* torch.load / load_state_dict raise: nothing catches it
          /\ pc' = "done"
          /\ result' = Raised("CheckpointError")
          /\ UNCHANGED outputs
       \/ \E s \in 1..NumSeeds :
            /\ outputs' = Forward(s, out_dim(model_def))
            /\ pc' = "decode"
            /\ UNCHANGED result
    /\ UNCHANGED <<model_def, ii, it, zern_label, offset_label, best_corr,
                   best_coeffs, best_offsets, bound, hist>>
    /\ UNCHANGED <<stageVars, acqVars, simVars>>

\* lines 327-337
DecodeOutputs ==
    /\ pc = "decode"
    /\ pc' = "score"
    /\ IF DecodedWidth(Len(outputs))
          THEN /\ zern_label' = DecodesZern(outputs)
               /\ offset_label' = DecodesOffset(outputs)
               /\ bound' = bound \cup {"zern_label", "offset_label"}
          ELSE UNCHANGED <<zern_label, offset_label, bound>>
    /\ UNCHANGED <<model_def, ii, it, outputs, best_corr, best_coeffs,
                   best_offsets, result, hist>>
    /\ UNCHANGED <<stageVars, acqVars, simVars>>

\* lines 349-354: reconstruct the PSF of the candidate, score it, keep the best
ScoreCandidate ==
    /\ pc = "score"
    /\ IF "zern_label" \notin bound
          THEN \* line 349 reads zern_label before any assignment
               /\ pc' = "done"
               /\ result' = Raised("UnboundLocalError")
               /\ UNCHANGED <<best_corr, best_coeffs, best_offsets, bound, hist>>
          ELSE \/ \* helpers.get_sted_psf or helpers.corr_coeff raise
                  /\ pc' = "done"
                  /\ result' = Raised("ReconstructionError")
                  /\ hist' = Append(hist, [zern |-> zern_label, offset |-> offset_label,
                                           corr |-> MinCorr, failed |-> TRUE])
                  /\ UNCHANGED <<best_corr, best_coeffs, best_offsets, bound>>
               \/ \E corr \in Corrs :
                    /\ hist' = Append(hist, [zern |-> zern_label, offset |-> offset_label,
                                             corr |-> corr, failed |-> FALSE])
                    /\ IF Better(corr, best_corr)
                          THEN /\ best_corr' = corr
                               /\ best_coeffs' = zern_label
                               /\ best_offsets' = offset_label
                               /\ bound' = bound \cup {"best_coeffs", "best_offsets"}
                          ELSE UNCHANGED <<best_corr, best_coeffs, best_offsets, bound>>
                    /\ pc' = "loop"
                    /\ UNCHANGED result
    /\ UNCHANGED <<model_def, ii, it, outputs, zern_label, offset_label>>
    /\ UNCHANGED <<stageVars, acqVars, simVars>>

\* line 365: return np.asarray(best_coeffs), np.asarray(best_offsets)
ReturnBest ==
    /\ pc = "return"
    /\ pc' = "done"
    /\ result' = IF "best_coeffs" \in bound
                    THEN Returned(best_coeffs, best_offsets)
                    ELSE Raised("UnboundLocalError")
    /\ UNCHANGED <<model_def, ii, it, outputs, zern_label, offset_label,
                   best_corr, best_coeffs, best_offsets, bound, hist>>
    /\ UNCHANGED <<stageVars, acqVars, simVars>>

PredNext ==
    \/ \E d \in ModelDefs, k \in 1..MaxSamples : abberior_predict(d, k)
    \/ LoopHead
    \/ ForwardPass
    \/ DecodeOutputs
    \/ ScoreCandidate
    \/ ReturnBest

\* ------------------------------------------------ stage offsets, both classes

OffVals == 0..MaxOff
Offsets == OffVals \X OffVals \X OffVals
Shifts == (0 - MaxShift..MaxShift) \X (0 - MaxShift..MaxShift) \X (0 - MaxShift..MaxShift)
\* px_size values the caller passes
PxSizes == {1, 2}

\* the mode argument of a call: 'fine', 'coarse', or left out
ModeArgs == {"fine", "coarse", "omitted"}
\* a left-out argument takes the default of the method's signature
ModeOr(m, default) == IF m = "omitted" THEN default ELSE m

\* Imspector parameter paths, lines 171-177 and 186-192
FineX == "ExpControl/scan/range/x/g_off"
FineY == "ExpControl/scan/range/y/g_off"
FineZ == "ExpControl/scan/range/z/g_off"
CoarseX == "ExpControl/scan/range/offsets/coarse/x/g_off"
CoarseY == "ExpControl/scan/range/offsets/coarse/y/g_off"
CoarseZ == "ExpControl/scan/range/offsets/coarse/z/g_off"
ParamNames == {FineX, FineY, FineZ, CoarseX, CoarseY, CoarseZ}

\* configurations of the measurement: the three that acquire_image selects by
\* name (lines 251, 260, 266) and the one that is active at construction
Configs == {"xy2d", "xz2d", "yz2d", "other"}

Value(v) == [exc |-> "none", val |-> v]
Throws(e) == [exc |-> e, val |-> <<>>]

\* d_xyz = helpers.get_CoMs(img) * px_size, lines 106 and 198
Scaled(d, px) == <<d[1] * px, d[2] * px, d[3] * px>>
\* xyz_Pos = xyz_0 - d_xyz, lines 118 and 210
Minus(a, b) == <<a[1] - b[1], a[2] - b[2], a[3] - b[3]>>

NoCall == [op |-> "none", mode |-> "omitted", exc |-> "none"]
Call(op, m, e) == [op |-> op, mode |-> m, exc |-> e]

\* ---- class Microscope

\* lines 94-96: get_stage_offsets(self, mode = '') ignores mode
MicRead(mode) == Value(config["stage_offsets"])

\* lines 99-100: set_stage_offsets(self, stage_offset, mode = '') ignores mode
MicWrite(stage_offset, mode) == [config EXCEPT !["stage_offsets"] = stage_offset]

Microscope_get_stage_offsets(m) ==
    /\ scope = "Microscope"
    /\ ret' = MicRead(ModeOr(m, "")).val
    /\ last' = Call("get", m, "none")
    /\ UNCHANGED <<scope, config, gui_params, active_cfg>>
    /\ UNCHANGED <<predVars, acqVars, simVars>>

Microscope_set_stage_offsets(o, m) ==
    /\ scope = "Microscope"
    /\ config' = MicWrite(o, ModeOr(m, ""))
    /\ last' = Call("set", m, "none")
    /\ ret' = <<>>
    /\ UNCHANGED <<scope, gui_params, active_cfg>>
    /\ UNCHANGED <<predVars, acqVars, simVars>>

\* lines 102-126
Microscope_center_stage(d, px_size, m) ==
    /\ scope = "Microscope"
    /\ LET d_xyz == Scaled(d, px_size)
           xyz_0 == MicRead(ModeOr(m, "")).val
           xyz_Pos == Minus(xyz_0, d_xyz)
       IN  /\ xyz_Pos \in Offsets
           /\ config' = MicWrite(xyz_Pos, "")
    /\ last' = Call("center", m, "none")
    /\ ret' = <<>>
    /\ UNCHANGED <<scope, gui_params, active_cfg>>
    /\ UNCHANGED <<predVars, acqVars, simVars>>

\* ---- class Abberior

\* lines 166-178: a mode that is neither 'fine' nor 'coarse' leaves x, y, z
\* unassigned and line 178 raises
AbbRead(mode) ==
    LET c == gui_params[active_cfg]
    IN  IF mode = "fine" THEN Value(<<c[FineX], c[FineY], c[FineZ]>>)
        ELSE IF mode = "coarse" THEN Value(<<c[CoarseX], c[CoarseY], c[CoarseZ]>>)
        ELSE Throws("UnboundLocalError")

\* a write that moves the stage by stage_offsets instead of to stage_offsets
AbbWriteRelative(stage_offsets, mode) ==
    LET c == gui_params[active_cfg]
        c2 == IF mode = "fine"
                 THEN [c EXCEPT ![FineX] = @ + stage_offsets[1],
                                ![FineY] = @ + stage_offsets[2],
                                ![FineZ] = @ + stage_offsets[3]]
              ELSE IF mode = "coarse"
                 THEN [c EXCEPT ![CoarseX] = @ + stage_offsets[1],
                                ![CoarseY] = @ + stage_offsets[2],
                                ![CoarseY] = @ + stage_offsets[3]]
              ELSE c
    IN  [gui_params EXCEPT ![active_cfg] = c2]

\* lines 181-192: the parameters of the active configuration after the call;
\* the third coarse set_parameters call (line 192) names the y path again
AbbWrite(stage_offsets, mode) ==
    LET c == gui_params[active_cfg]
        c2 == IF mode = "fine"
                 THEN [c EXCEPT ![FineX] = stage_offsets[1],
                                ![FineY] = stage_offsets[2],
                                ![FineZ] = stage_offsets[3]]
              ELSE IF mode = "coarse"
                 THEN [c EXCEPT ![CoarseX] = stage_offsets[1],
                                ![CoarseY] = stage_offsets[2],
                                ![CoarseY] = stage_offsets[3]]
              ELSE c
    IN  [gui_params EXCEPT ![active_cfg] = c2]

Abberior_get_stage_offsets(m) ==
    /\ scope = "Abberior"
    /\ ret' = AbbRead(ModeOr(m, "fine")).val
    /\ last' = Call("get", m, AbbRead(ModeOr(m, "fine")).exc)
    /\ UNCHANGED <<scope, config, gui_params, active_cfg>>
    /\ UNCHANGED <<predVars, acqVars, simVars>>

Abberior_set_stage_offsets(o, m) ==
    /\ scope = "Abberior"
    /\ gui_params' = AbbWrite(o, ModeOr(m, "fine"))
    /\ last' = Call("set", m, "none")
    /\ ret' = <<>>
    /\ UNCHANGED <<scope, config, active_cfg>>
    /\ UNCHANGED <<predVars, acqVars, simVars>>

\* lines 194-219: reads with the mode given, writes with the default mode of
\* set_stage_offsets (line 219 passes no mode)
Abberior_center_stage(d, px_size, m) ==
    /\ scope = "Abberior"
    /\ LET d_xyz == Scaled(d, px_size)
           got == AbbRead(ModeOr(m, ""))
       IN  IF got.exc # "none"
              THEN /\ last' = Call("center", m, got.exc)
                   /\ UNCHANGED gui_params
              ELSE LET xyz_Pos == Minus(got.val, d_xyz)
                   IN  /\ xyz_Pos \in Offsets
                       /\ gui_params' = AbbWrite(xyz_Pos, "fine")
                       /\ last' = Call("center", m, "none")
    /\ ret' = <<>>
    /\ UNCHANGED <<scope, config, active_cfg>>
    /\ UNCHANGED <<predVars, acqVars, simVars>>

\* the offsets a caller reads for mode m on the backend it holds
get_stage_offsets(m) ==
    IF scope = "Microscope" THEN MicRead(m) ELSE AbbRead(m)

\* lines 90-91 (Microscope.get_config) and 158-163 (Abberior.get_config)
StageFresh ==
    /\ config = [stage_offsets |-> <<0, 0, 0>>]
    /\ active_cfg = "other"
    /\ last = NoCall
    /\ ret = <<>>

\* ------------------------------------------- Abberior.acquire_image

\* the xz and yz try blocks in the other order
PlanesYzBeforeXz == << [cfg |-> "xy2d", window |-> "ExpControl Ch1 {1}"],
                       [cfg |-> "yz2d", window |-> "ExpControl Ch1 {15}"],
                       [cfg |-> "xz2d", window |-> "ExpControl Ch1 {13}"] >>

\* lines 251-252, 260-261, 266-267: configuration and capture channel per plane
Planes == << [cfg |-> "xy2d", window |-> "ExpControl Ch1 {1}"],
             [cfg |-> "xz2d", window |-> "ExpControl Ch1 {13}"],
             [cfg |-> "yz2d", window |-> "ExpControl Ch1 {15}"] >>

PlaneCfgs == {Planes[p].cfg : p \in 1..3}
PlaneWindows == {Planes[p].window : p \in 1..3}

NoImage == [exc |-> "pending", image |-> <<>>]
Event(p, e) == [plane |-> p, ev |-> e]

\* an except clause that, like the one of grab_image (line 238), does not exit:
\* control falls through to the statement after the try block
ExceptClauseFallsThrough == "advance"

\* lines 253-255, 262-264, 268-270: the except clause of a plane prints and
\* calls exit(); the position the call is at afterwards
ExceptClause == "exited"

\* line 242 and lines 248-249: a call; the first measurement is activated
Abberior_acquire_image(mu) ==
    /\ scope = "Abberior"
    /\ acq_pc \in {"idle", "done"}
    /\ multi' = mu
    /\ plane' = 1
    /\ grab_bound' = {}
    /\ img_p' = <<>>
    /\ images' = <<>>
    /\ acq_result' = NoImage
    /\ events' = <<>>
    /\ acq_pc' = "select"
    /\ UNCHANGED <<configs, windows, running>>
    /\ UNCHANGED <<predVars, stageVars, simVars>>

\* lines 251, 260, 266: msr.activate(msr.configuration(name))
SelectConfiguration ==
    /\ acq_pc = "select"
    /\ IF Planes[plane].cfg \in configs
          THEN /\ active_cfg' = Planes[plane].cfg
               /\ events' = Append(events, Event(plane, "select"))
               /\ acq_pc' = "start"
          ELSE /\ UNCHANGED active_cfg
               /\ events' = Append(events, Event(plane, "select_failed"))
               /\ acq_pc' = "except"
    /\ UNCHANGED <<configs, windows, running, multi, plane, grab_bound, img_p,
                   images, acq_result>>
    /\ UNCHANGED <<scope, config, gui_params, last, ret>>
    /\ UNCHANGED <<predVars, simVars>>

\* lines 221-228: entry of grab_image (fresh locals) and self.gui.start(msr)
GrabStart ==
    /\ acq_pc = "start"
    /\ grab_bound' = {}
    /\ img_p' = <<>>
    /\ running' = TRUE
    /\ events' = Append(events, Event(plane, "start"))
    /\ acq_pc' = "settle"
    /\ UNCHANGED <<configs, windows, multi, plane, images, acq_result>>
    /\ UNCHANGED <<predVars, stageVars, simVars>>

\* line 229: time.sleep(3)
GrabSettle ==
    /\ acq_pc = "settle"
    /\ events' = Append(events, Event(plane, "settle"))
    /\ acq_pc' = "pause"
    /\ UNCHANGED <<configs, windows, running, multi, plane, grab_bound, img_p,
                   images, acq_result>>
    /\ UNCHANGED <<predVars, stageVars, simVars>>

\* line 230: self.gui.pause(msr)
GrabPause ==
    /\ acq_pc = "pause"
    /\ running' = FALSE
    /\ events' = Append(events, Event(plane, "pause"))
    /\ acq_pc' = "read"
    /\ UNCHANGED <<configs, windows, multi, plane, grab_bound, img_p, images,
                   acq_result>>
    /\ UNCHANGED <<predVars, stageVars, simVars>>

\* lines 231-232: img = msr.stack(window).data(); stats; a missing window
\* raises inside the try of grab_image
GrabRead ==
    /\ acq_pc = "read"
    /\ IF Planes[plane].window \in windows
          THEN /\ grab_bound' = grab_bound \cup {"img", "stats"}
               /\ events' = Append(events, Event(plane, "read"))
               /\ acq_pc' = "preprocess"
          ELSE /\ UNCHANGED grab_bound
               /\ events' = Append(events, Event(plane, "read_failed"))
               /\ acq_pc' = "grab_except"
    /\ UNCHANGED <<configs, windows, running, multi, plane, img_p, images,
                   acq_result>>
    /\ UNCHANGED <<predVars, stageVars, simVars>>

\* line 234: img_p = helpers.preprocess(img); the frame is tagged with the
\* configuration that was active and the window it was read from
GrabPreprocess ==
    /\ acq_pc = "preprocess"
    /\ img_p' = <<active_cfg, Planes[plane].window>>
    /\ grab_bound' = grab_bound \cup {"img_p"}
    /\ events' = Append(events, Event(plane, "preprocess"))
    /\ acq_pc' = "wait"
    /\ UNCHANGED <<configs, windows, running, multi, plane, images, acq_result>>
    /\ UNCHANGED <<predVars, stageVars, simVars>>

\* line 235: time.sleep(0.5)
GrabWait ==
    /\ acq_pc = "wait"
    /\ events' = Append(events, Event(plane, "wait"))
    /\ acq_pc' = "grab_return"
    /\ UNCHANGED <<configs, windows, running, multi, plane, grab_bound, img_p,
                   images, acq_result>>
    /\ UNCHANGED <<predVars, stageVars, simVars>>

\* lines 236-238: except: print(...); exit() is commented out
GrabExcept ==
    /\ acq_pc = "grab_except"
    /\ acq_pc' = "grab_return"
    /\ UNCHANGED <<configs, windows, running, multi, plane, grab_bound, img_p,
                   images, acq_result, events>>
    /\ UNCHANGED <<predVars, stageVars, simVars>>

\* line 239: return img_p, stats (UnboundLocalError when the try was left
\* early), and the assignment of the pair at lines 252, 261, 267
GrabReturn ==
    /\ acq_pc = "grab_return"
    /\ IF {"img_p", "stats"} \subseteq grab_bound
          THEN /\ images' = Append(images, img_p)
               /\ acq_pc' = "advance"
          ELSE /\ UNCHANGED images
               /\ acq_pc' = "except"
    /\ UNCHANGED <<configs, windows, running, multi, plane, grab_bound, img_p,
                   acq_result, events>>
    /\ UNCHANGED <<predVars, stageVars, simVars>>

\* lines 253-255, 262-264, 268-270: except: print(...); exit()
AcquireExcept ==
    /\ acq_pc = "except"
    /\ acq_pc' = ExceptClause
    /\ acq_result' = IF ExceptClause = "exited"
                        THEN [exc |-> "SystemExit", image |-> <<>>]
                        ELSE acq_result
    /\ UNCHANGED <<configs, windows, running, multi, plane, grab_bound, img_p,
                   images, events>>
    /\ UNCHANGED <<predVars, stageVars, simVars>>

\* line 257 (if multi) and the order of the three try blocks
NextPlane ==
    /\ acq_pc = "advance"
    /\ IF multi /\ plane < 3
          THEN /\ plane' = plane + 1
               /\ acq_pc' = "select"
          ELSE /\ UNCHANGED plane
               /\ acq_pc' = "stack"
    /\ UNCHANGED <<configs, windows, running, multi, grab_bound, img_p, images,
                   acq_result, events>>
    /\ UNCHANGED <<predVars, stageVars, simVars>>

\* lines 271-275: image = np.stack((image_xy, image_xz, image_yz)) or image_xy
AcquireReturn ==
    /\ acq_pc = "stack"
    /\ acq_pc' = "done"
    /\ acq_result' = IF Len(images) = (IF multi THEN 3 ELSE 1)
                        THEN [exc |-> "none", image |-> images]
                        ELSE [exc |-> "UnboundLocalError", image |-> <<>>]
    /\ UNCHANGED <<configs, windows, running, multi, plane, grab_bound, img_p,
                   images, events>>
    /\ UNCHANGED <<predVars, stageVars, simVars>>

\* no acquisition has been asked for
AcqFresh ==
    /\ running = FALSE
    /\ acq_pc = "idle"
    /\ multi = FALSE
    /\ plane = 1
    /\ grab_bound = {}
    /\ img_p = <<>>
    /\ images = <<>>
    /\ acq_result = NoImage
    /\ events = <<>>

\* --------------------------- Microscope.calc_data / acquire_image / save_img

\* mask_offset values passed by callers: the default (line 58) and line 375
MaskOffsets == {<<0, 0>>, <<10, 5>>}

\* aberration vectors passed by callers: np.zeros(11) (lines 58, 373) and the
\* vector of line 374 (aberrs[0] = 0.5, counted in halves)
AberrVectors == {[j \in 1..11 |-> 0], [j \in 1..11 |-> IF j = 1 THEN 1 ELSE 0]}

\* pc.zern_sum(2*size, aberrs, orders[3::], radscale = 2): a function of aberrs
\* for the fixed numerical parameters of the object
zern_sum(aberrs) == [of |-> "zern_sum", aberrs |-> aberrs]

\* pc.crop(pc.add_images([vortex, zerns]), size, mask_offset)
crop(z, mask_offset) == [of |-> "crop", zerns |-> z, mask_offset |-> mask_offset]

\* vd.vector_diffraction(...) followed by helpers.preprocess of each plane:
\* the three planes are a function of the phase mask, the optical and
\* numerical parameters being fixed at construction
vector_diffraction(mask) ==
    << [plane |-> "xy", mask |-> mask],
       [plane |-> "xz", mask |-> mask],
       [plane |-> "yz", mask |-> mask] >>

\* [np.max(img), np.min(img), np.std(img)]
Stats(img) == [of |-> "max,min,std", img |-> img]

\* lines 58-87: what calc_data assigns to self.zerns, self.phasemask, self.data
calc_data(mask_offset, aberrs) ==
    LET z == zern_sum(aberrs)
        m == crop(z, mask_offset)
    IN  [zerns |-> z, phasemask |-> m, data |-> vector_diffraction(m)]

\* a single-plane image that is taken from plane 1 of self.data (index slip)
ReturnedImageWrongPlane(mu, d) == IF mu THEN <<d[1], d[2], d[3]>> ELSE d[2]

\* lines 140-143: np.stack((data[0], data[1], data[2])) or data[0]
ReturnedImage(mu, d) == IF mu THEN <<d[1], d[2], d[3]>> ELSE d[1]

\* the last call and the one before it
Logged(log, entry) == IF Len(log) < 2 THEN Append(log, entry) ELSE <<log[2], entry>>

\* lines 137-145
Microscope_acquire_image(mu, mask_offset, aberrs) ==
    /\ scope = "Microscope"
    /\ LET r == calc_data(mask_offset, aberrs)
       IN  /\ data' = r.data
           /\ phasemask' = r.phasemask
           /\ zerns' = r.zerns
           /\ acq_log' = Logged(acq_log,
                                [multi |-> mu, mask_offset |-> mask_offset,
                                 aberrs |-> aberrs,
                                 img |-> ReturnedImage(mu, r.data),
                                 stats |-> Stats(r.data[1])])
    /\ UNCHANGED saved
    /\ UNCHANGED <<predVars, stageVars, acqVars>>

\* lines 148-149: tifffile.imsave(path + '.tif', self.data)
Microscope_save_img ==
    /\ scope = "Microscope"
    /\ saved' = [ext |-> ".tif", content |-> data]
    /\ UNCHANGED <<data, phasemask, zerns, acq_log>>
    /\ UNCHANGED <<predVars, stageVars, acqVars>>

\* lines 278-280: msr.save_as(path + '.msr') on the active measurement
Abberior_save_img ==
    /\ scope = "Abberior"
    /\ acq_pc \in {"idle", "done"}
    /\ saved' = [ext |-> ".msr", content |-> <<active_cfg>>]
    /\ UNCHANGED <<data, phasemask, zerns, acq_log>>
    /\ UNCHANGED <<predVars, stageVars, acqVars>>

\* lines 48-55: __init__ ends with self.calc_data() on the default arguments
SimFresh ==
    /\ data = calc_data(<<0, 0>>, [j \in 1..11 |-> 0]).data
    /\ phasemask = calc_data(<<0, 0>>, [j \in 1..11 |-> 0]).phasemask
    /\ zerns = calc_data(<<0, 0>>, [j \in 1..11 |-> 0]).zerns
    /\ acq_log = <<>>
    /\ saved = [ext |-> "", content |-> <<>>]

\* a Microscope object; its acquisitions and saves (they read no stage offset)
SimInit ==
    /\ PredInit
    /\ StageFresh
    /\ AcqFresh
    /\ SimFresh
    /\ configs = Configs
    /\ windows = PlaneWindows
    /\ scope = "Microscope"
    /\ gui_params = [c \in Configs |-> [n \in ParamNames |-> 0]]

SimNext ==
    \/ \E mu \in BOOLEAN, mo \in MaskOffsets, ab \in AberrVectors :
         Microscope_acquire_image(mu, mo, ab)
    \/ Microscope_save_img

SimSpec == SimInit /\ [][SimNext]_vars

\* an Abberior object connected to a measurement that has any of the three
\* configurations and capture channels
AcqInit ==
    /\ PredInit
    /\ StageFresh
    /\ AcqFresh
    /\ SimFresh
    /\ scope = "Abberior"
    /\ gui_params = [c \in Configs |-> [n \in ParamNames |-> 0]]
    /\ \E cs \in SUBSET PlaneCfgs : configs = cs \cup {"other"}
    /\ windows \in SUBSET PlaneWindows

AcqNext ==
    \/ \E mu \in BOOLEAN : Abberior_acquire_image(mu)
    \/ SelectConfiguration
    \/ GrabStart
    \/ GrabSettle
    \/ GrabPause
    \/ GrabRead
    \/ GrabPreprocess
    \/ GrabWait
    \/ GrabExcept
    \/ GrabReturn
    \/ AcquireExcept
    \/ NextPlane
    \/ AcquireReturn

AcqSpec == AcqInit /\ [][AcqNext]_vars

\* ---- the same caller driving a Microscope and an Abberior object in
\* lock-step: each call is made on both with the same arguments; ret and
\* last.exc hold the pair <<Microscope's outcome, Abberior's outcome>>

\* lines 94-96 and lines 166-178
Pair_get_stage_offsets(m) ==
    /\ scope = "both"
    /\ ret' = <<MicRead(ModeOr(m, "")).val, AbbRead(ModeOr(m, "fine")).val>>
    /\ last' = Call("get", m, <<"none", AbbRead(ModeOr(m, "fine")).exc>>)
    /\ UNCHANGED <<scope, config, gui_params, active_cfg>>
    /\ UNCHANGED <<predVars, acqVars, simVars>>

\* lines 99-100 and lines 181-192
Pair_set_stage_offsets(o, m) ==
    /\ scope = "both"
    /\ config' = MicWrite(o, ModeOr(m, ""))
    /\ gui_params' = AbbWrite(o, ModeOr(m, "fine"))
    /\ last' = Call("set", m, <<"none", "none">>)
    /\ ret' = <<>>
    /\ UNCHANGED <<scope, active_cfg>>
    /\ UNCHANGED <<predVars, acqVars, simVars>>

\* lines 102-126 and lines 194-219, on the same image and pixel size
Pair_center_stage(d, px_size, m) ==
    /\ scope = "both"
    /\ LET d_xyz == Scaled(d, px_size)
           mic_Pos == Minus(MicRead(ModeOr(m, "")).val, d_xyz)
           got == AbbRead(ModeOr(m, ""))
       IN  /\ mic_Pos \in Offsets
           /\ config' = MicWrite(mic_Pos, "")
           /\ last' = Call("center", m, <<"none", got.exc>>)
           /\ IF got.exc # "none"
                 THEN UNCHANGED gui_params
                 ELSE LET xyz_Pos == Minus(got.val, d_xyz)
                      IN  /\ xyz_Pos \in Offsets
                          /\ gui_params' = AbbWrite(xyz_Pos, "fine")
    /\ ret' = <<>>
    /\ UNCHANGED <<scope, active_cfg>>
    /\ UNCHANGED <<predVars, acqVars, simVars>>

\* both objects start with the same offset stored for every mode
PairInit ==
    /\ PredInit
    /\ StageFresh
    /\ AcqFresh
    /\ SimFresh
    /\ configs = Configs
    /\ windows = PlaneWindows
    /\ scope = "both"
    /\ gui_params = [c \in Configs |-> [n \in ParamNames |-> 0]]

PairNext ==
    \/ \E m \in ModeArgs : Pair_get_stage_offsets(m)
    \/ \E o \in Offsets, m \in ModeArgs : Pair_set_stage_offsets(o, m)
    \/ \E d \in Shifts, px \in PxSizes, m \in ModeArgs : Pair_center_stage(d, px, m)

PairSpec == PairInit /\ [][PairNext]_vars

\* ---- an Abberior object used the way the orchestration loop uses it: the
\* caller is single-threaded, so it makes an offset or save call only while
\* no acquire_image call is under way; the runs followed are those that set
\* the offsets up before the first acquisition and only read them afterwards

CallerHasControl == acq_pc \in {"idle", "done"}

Hw_get_stage_offsets(m) == CallerHasControl /\ Abberior_get_stage_offsets(m)

Hw_set_stage_offsets(o, m) == acq_pc = "idle" /\ Abberior_set_stage_offsets(o, m)

Hw_center_stage(d, px_size, m) == acq_pc = "idle" /\ Abberior_center_stage(d, px_size, m)

\* a measurement with every configuration, with or without the yz capture
\* channel
HwInit ==
    /\ PredInit
    /\ StageFresh
    /\ AcqFresh
    /\ SimFresh
    /\ scope = "Abberior"
    /\ gui_params = [c \in Configs |-> [n \in ParamNames |-> 0]]
    /\ configs = Configs
    /\ windows \in {PlaneWindows, PlaneWindows \ {Planes[3].window}}

HwNext ==
    \/ \E m \in ModeArgs : Hw_get_stage_offsets(m)
    \/ \E o \in Offsets, m \in ModeArgs : Hw_set_stage_offsets(o, m)
    \/ \E d \in Shifts, px \in PxSizes, m \in ModeArgs : Hw_center_stage(d, px, m)
    \/ Abberior_save_img
    \/ \E mu \in BOOLEAN : Abberior_acquire_image(mu)
    \/ SelectConfiguration
    \/ GrabStart
    \/ GrabSettle
    \/ GrabPause
    \/ GrabRead
    \/ GrabPreprocess
    \/ GrabWait
    \/ GrabExcept
    \/ GrabReturn
    \/ AcquireExcept
    \/ NextPlane
    \/ AcquireReturn

HwSpec == HwInit /\ [][HwNext]_vars

StageInit ==
    /\ PredInit
    /\ StageFresh
    /\ AcqFresh
    /\ SimFresh
    /\ configs = Configs
    /\ windows = PlaneWindows
    /\ scope \in {"Microscope", "Abberior"}
    /\ \E p \in [ParamNames -> OffVals] :
         /\ scope = "Microscope" => p = [n \in ParamNames |-> 0]
         /\ gui_params = [c \in Configs |->
                            IF c = "other" THEN p ELSE [n \in ParamNames |-> 0]]

StageNext ==
    \/ \E m \in ModeArgs : Microscope_get_stage_offsets(m)
    \/ \E o \in Offsets, m \in ModeArgs : Microscope_set_stage_offsets(o, m)
    \/ \E d \in Shifts, px \in PxSizes, m \in ModeArgs : Microscope_center_stage(d, px, m)
    \/ \E m \in ModeArgs : Abberior_get_stage_offsets(m)
    \/ \E o \in Offsets, m \in ModeArgs : Abberior_set_stage_offsets(o, m)
    \/ \E d \in Shifts, px \in PxSizes, m \in ModeArgs : Abberior_center_stage(d, px, m)

StageSpec == StageInit /\ [][StageNext]_vars

Init ==
    /\ PredInit
    /\ StageFresh
    /\ AcqFresh
    /\ SimFresh
    /\ configs = Configs
    /\ windows = PlaneWindows
    /\ scope = "Microscope"
    /\ gui_params = [c \in Configs |-> [n \in ParamNames |-> 0]]

Next == PredNext

Spec == Init /\ [][Next]_vars

\* =================================================================== claims

\* ---- abberior_predict (checked under Spec)

\* the call has ended after scoring every one of its ii samples
AllScored == pc = "done" /\ Len(hist) = ii /\ \A i \in 1..Len(hist) : ~hist[i].failed

\* C1: with samples = k > 1 and any k correlation scores (all of them zero or
\* negative included), the call returns one of the k sampled candidates, and
\* that candidate's score is >= the score of every candidate of the run.
C1_BestOfK ==
    (AllScored /\ ii > 1) =>
        /\ result.exc = "none"
        /\ \E i \in 1..Len(hist) :
             /\ result.coeffs = hist[i].zern
             /\ result.offsets = hist[i].offset
             /\ \A j \in 1..Len(hist) : hist[i].corr >= hist[j].corr

\* C2: for each supported output width the decoded candidate has 11
\* coefficients and a 2-element offset: width 13 gives the first 11 values and
\* the last 2; width 11 gives all 11 values and (0,0); width 2 gives the zero
\* vector of length 11 and the 2 values.
C2_DecodedShape ==
    (pc = "score" /\ Len(outputs) \in {13, 11, 2}) =>
        /\ "zern_label" \in bound /\ "offset_label" \in bound
        /\ Len(zern_label) = 11
        /\ Len(offset_label) = 2
        /\ Len(outputs) = 13 =>
             /\ \A j \in 1..11 : zern_label[j] = outputs[j]
             /\ \A j \in 1..2 : offset_label[j] = outputs[11 + j]
        /\ Len(outputs) = 11 =>
             /\ \A j \in 1..11 : zern_label[j] = outputs[j]
             /\ offset_label = <<0, 0>>
        /\ Len(outputs) = 2 =>
             /\ \A j \in 1..11 : zern_label[j] = 0
             /\ \A j \in 1..2 : offset_label[j] = outputs[j]

\* C3: when the forward-pass output width is not 13, 11 or 2 (width 0: neither
\* output flag set), the call ends in the dedicated unsupported-width error;
\* no candidate is reconstructed or scored and nothing is returned.
C3_UnsupportedWidth ==
    (pc = "done" /\ out_dim(model_def) \notin {13, 11, 2}
                 /\ result.exc # "CheckpointError") =>
        /\ result.exc = "UnsupportedModelOutputWidth"
        /\ result.coeffs = <<>> /\ result.offsets = <<>>
        /\ hist = <<>>

\* C8: with samples = 1 the call returns exactly the coefficients and offset
\* decoded from its single forward pass, whatever that candidate's score is.
C8_SingleSample ==
    (AllScored /\ ii = 1) =>
        /\ result.exc = "none"
        /\ result.coeffs = hist[1].zern
        /\ result.offsets = hist[1].offset

\* C9: when reconstruction or correlation fails for one sample, the remaining
\* samples are still run and the call still returns a candidate; the failed
\* sample counts as the lowest score, so it is returned only if no other
\* sample scores higher.
C9_FailedSampleIsLocal ==
    (pc = "done" /\ \E i \in 1..Len(hist) : hist[i].failed) =>
        /\ Len(hist) = ii
        /\ result.exc = "none"
        /\ \E i \in 1..Len(hist) :
             /\ result.coeffs = hist[i].zern
             /\ result.offsets = hist[i].offset
             /\ \A j \in 1..Len(hist) : hist[i].corr >= hist[j].corr

\* the greatest score of the run and the first sample that attains it
MaxScore == CHOOSE c \in Corrs :
    /\ \E i \in 1..Len(hist) : hist[i].corr = c
    /\ \A i \in 1..Len(hist) : hist[i].corr <= c
FirstBest == CHOOSE i \in 1..Len(hist) :
    /\ hist[i].corr = MaxScore
    /\ \A j \in 1..(i - 1) : hist[j].corr < MaxScore

\* C14: when several sampled candidates attain the same greatest correlation
\* score, the call returns the earliest sampled one among them (a later
\* candidate replaces the retained one only when its score is strictly
\* greater).
C14_TiesKeepEarliest ==
    (/\ AllScored
     /\ \E i, j \in 1..Len(hist) :
          i < j /\ hist[i].corr = MaxScore /\ hist[j].corr = MaxScore) =>
        result = Returned(hist[FirstBest].zern, hist[FirstBest].offset)

\* ---- stage offsets (checked under StageSpec)

TwoModes == {"fine", "coarse"}
OtherMode(m) == IF m = "fine" THEN "coarse" ELSE "fine"

\* some backend's set_stage_offsets(o, m) is the step taken
SetStep(o, m) == Microscope_set_stage_offsets(o, m) \/ Abberior_set_stage_offsets(o, m)
\* some backend's center_stage(img, xyz_init, px, m) is the step taken, d being
\* the centre-of-mass displacement of img
CenterStep(d, px, m) == Microscope_center_stage(d, px, m) \/ Abberior_center_stage(d, px, m)

\* C4: on each backend a set_stage_offsets or center_stage call addressed to
\* one mode (fine or coarse) leaves the offset stored for the other mode as
\* it was: get_stage_offsets(other mode) is the same before and after.
C4_OtherModeUntouched ==
    [][\A m \in TwoModes :
         ((\E o \in Offsets : SetStep(o, m))
            \/ (\E d \in Shifts, px \in PxSizes : CenterStep(d, px, m)))
         => get_stage_offsets(OtherMode(m))' = get_stage_offsets(OtherMode(m))]_vars

\* C5: set_stage_offsets((x, y, z), mode) followed at once by
\* get_stage_offsets(mode) returns exactly (x, y, z), for fine and coarse.
C5_SetThenGet ==
    [][\A o \in Offsets, m \in TwoModes :
         SetStep(o, m) => get_stage_offsets(m)' = [exc |-> "none", val |-> o]]_vars

\* C6: after center_stage(image, initial_offset, pixel_size, mode) the offset
\* of mode is what it was before the call minus the image's centre-of-mass
\* displacement times pixel_size; read and write-back address the same mode.
C6_CenterSubtracts ==
    [][\A d \in Shifts, px \in PxSizes, m \in TwoModes :
         CenterStep(d, px, m) =>
            /\ get_stage_offsets(m)'.exc = "none"
            /\ \A a \in 1..3 :
                 get_stage_offsets(m)'.val[a] = get_stage_offsets(m).val[a] - d[a] * px]_vars

\* C7: center_stage on an already centred image (displacement zero on all
\* axes) leaves the stored offsets of fine and of coarse unchanged, whichever
\* of the two modes was passed.
C7_CenteredIsNoOp ==
    [][\A px \in PxSizes, m \in TwoModes :
         CenterStep(<<0, 0, 0>>, px, m) =>
            \A m2 \in TwoModes : get_stage_offsets(m2)' = get_stage_offsets(m2)]_vars

\* C15: set_stage_offsets is idempotent on both backends: for every offset and
\* each of the modes fine and coarse, the store a set_stage_offsets(offset,
\* mode) call leaves behind (the offsets of both modes included) is the store
\* that a second, identical call made right after it leaves behind.
C15_SetIdempotent ==
    [][\A o \in Offsets, m \in TwoModes :
         SetStep(o, m) =>
            /\ scope = "Microscope" => MicWrite(o, m)' = config'
            /\ scope = "Abberior" => AbbWrite(o, m)' = gui_params']_vars

\* a coarse write of an offset with y # z has been made on the hardware
\* backend, and making it again changes nothing
C15_Witness ==
    /\ scope = "Abberior"
    /\ last = Call("set", "coarse", "none")
    /\ gui_params[active_cfg][CoarseX] = 1
    /\ AbbWrite(<<1, 0, 1>>, "coarse") = gui_params
    /\ AbbRead("coarse") = Value(<<1, 1, gui_params[active_cfg][CoarseZ]>>)

\* ---- Abberior.acquire_image (checked under AcqSpec)

\* the configuration or the capture channel of plane p is missing
MissingAt(p) == Planes[p].cfg \notin configs \/ Planes[p].window \notin windows

\* the first plane, in acquisition order, with something missing
FirstMissing == CHOOSE p \in 1..3 : MissingAt(p) /\ \A q \in 1..(p - 1) : ~MissingAt(q)

\* how often the call has done one of the things in evs for plane p
Times(p, evs) ==
    Cardinality({i \in 1..Len(events) : events[i].plane = p /\ events[i].ev \in evs})

\* C10: in acquire_image with multi = true, when the configuration or capture
\* channel of any of the three planes is missing, the whole call is aborted:
\* no image is returned (neither the stack nor the planes captured before the
\* failure), no later plane is acquired, the failed plane is not retried.
C10_MissingPlaneAborts ==
    (multi /\ \E p \in 1..3 : MissingAt(p)) =>
        /\ acq_pc # "done"
        /\ acq_result.image = <<>>
        /\ acq_result.exc \in {"pending", "SystemExit"}
        /\ acq_pc = "exited" => acq_result.exc = "SystemExit"
        /\ \A i \in 1..Len(events) : events[i].plane <= FirstMissing
        /\ Times(FirstMissing, {"select", "select_failed"}) <= 1
        /\ Times(FirstMissing, {"start"}) <= 1
        /\ Times(FirstMissing, {"read", "read_failed"}) <= 1

\* C10 witness: the xy plane was captured, a later plane failed, and the call
\* has ended without handing any image to the caller
C10_Witness ==
    /\ multi
    /\ acq_pc = "exited"
    /\ Len(images) >= 1
    /\ FirstMissing > 1
    /\ Times(FirstMissing, {"select_failed", "read_failed"}) = 1
    /\ acq_result = [exc |-> "SystemExit", image |-> <<>>]

\* the current acquire_image call has met a missing configuration or channel
AcquisitionFailed ==
    \E i \in 1..Len(events) : events[i].ev \in {"select_failed", "read_failed"}

\* C11: when an acquisition attempt on the hardware backend fails (missing
\* configuration or capture channel), the failure reaches the caller as an
\* error outcome of that acquire_image call and the process keeps running:
\* the call ends, the caller may call acquire_image again, and the process is
\* never terminated from within.
C11_FailureReturnsToCaller ==
    AcquisitionFailed =>
        /\ acq_pc # "exited"
        /\ acq_result.exc # "SystemExit"
        /\ acq_pc \notin {"select", "start", "settle", "pause", "read",
                          "preprocess", "wait", "grab_except", "grab_return",
                          "except", "advance", "stack"} =>
             /\ acq_pc = "done"
             /\ acq_result.exc \notin {"none", "pending"}
             /\ acq_result.image = <<>>
             /\ ENABLED (\E mu \in BOOLEAN : Abberior_acquire_image(mu))

\* the events of one plane, in the order the claim gives them
PlaneEvents(p) ==
    << Event(p, "select"), Event(p, "start"), Event(p, "settle"), Event(p, "pause"),
       Event(p, "read"), Event(p, "preprocess"), Event(p, "wait") >>

\* C16: an Abberior.acquire_image(multi = true) call that completes without
\* error has acquired the planes in the order xy, xz, yz, each from its own
\* configuration and capture channel (xy2d / Ch1 {1}, xz2d / Ch1 {13}, yz2d /
\* Ch1 {15}); per plane the events were: configuration selected, acquisition
\* started, settle wait, acquisition paused, frame read, frame preprocessed,
\* second wait, and a plane started only after the previous plane's second
\* wait; no frame is read while the acquisition is running.
C16_MultiOrder ==
    /\ acq_pc = "read" => ~running
    /\ (multi /\ acq_pc = "done" /\ acq_result.exc = "none") =>
          /\ events = PlaneEvents(1) \o PlaneEvents(2) \o PlaneEvents(3)
          /\ acq_result.image = << <<"xy2d", "ExpControl Ch1 {1}">>,
                                   <<"xz2d", "ExpControl Ch1 {13}">>,
                                   <<"yz2d", "ExpControl Ch1 {15}">> >>

C16_Witness ==
    /\ multi
    /\ acq_pc = "done"
    /\ acq_result.exc = "none"
    /\ Len(acq_result.image) = 3
    /\ Len(events) = 21
    /\ active_cfg = "yz2d"

\* ---- Microscope.acquire_image (checked under SimSpec)

\* C12: on the simulated backend, acquire_image(multi=false, offset, aberrs)
\* followed by acquire_image(multi=true, offset, aberrs) with the same
\* parameters returns a stack whose first (xy) plane is the single plane the
\* first call returned, and the same stats, whatever was acquired earlier.
C12_SingleThenMulti ==
    (/\ Len(acq_log) = 2
     /\ ~acq_log[1].multi
     /\ acq_log[2].multi
     /\ acq_log[2].mask_offset = acq_log[1].mask_offset
     /\ acq_log[2].aberrs = acq_log[1].aberrs) =>
        /\ Len(acq_log[2].img) = 3
        /\ acq_log[2].img[1] = acq_log[1].img
        /\ acq_log[2].stats = acq_log[1].stats

\* C12 witness: a single-plane then a three-plane acquisition with the same
\* non-default parameters, made after data of other parameters was held
C12_Witness ==
    /\ Len(acq_log) = 2
    /\ ~acq_log[1].multi
    /\ acq_log[2].multi
    /\ acq_log[2].mask_offset = <<10, 5>>
    /\ acq_log[1].mask_offset = <<10, 5>>
    /\ acq_log[2].aberrs = acq_log[1].aberrs
    /\ acq_log[2].aberrs[1] = 1
    /\ acq_log[2].img[1] = acq_log[1].img
    /\ data = acq_log[2].img

\* ---- both backends in lock-step (checked under PairSpec)

\* C13: a caller of the offset operations cannot tell the Microscope from the
\* Abberior backend: in every sequence of get_stage_offsets, set_stage_offsets
\* and center_stage calls (mode fine, coarse or omitted) started from equal
\* stored offsets and fed the same images, every get_stage_offsets call
\* returns the same offset on both, and a call completes on one exactly when
\* it completes on the other.
C13_BackendsIndistinguishable ==
    scope = "both" /\ last.op # "none" =>
        /\ (last.exc[1] = "none") <=> (last.exc[2] = "none")
        /\ last.op = "get" /\ last.exc = <<"none", "none">> => ret[1] = ret[2]

\* ---- offsets across acquisitions and saves (checked under HwSpec)

\* C17: the stored offsets change only when set_stage_offsets or center_stage
\* is called: as long as the last offset call was a get_stage_offsets(mode),
\* mode fine or coarse, whatever acquire_image calls (single or multi) and
\* save_img calls have completed since, get_stage_offsets(mode) still returns
\* what that call returned.
C17_OffsetsOnlyChangeOnWrite ==
    (/\ last.op = "get"
     /\ last.mode \in TwoModes
     /\ last.exc = "none"
     /\ CallerHasControl) =>
        get_stage_offsets(last.mode) = Value(ret)

====
